---------------------------- MODULE Spec2Model ----------------------------
(***************************************************************************)
(* A model of minecraft-fancy-rcon-cli: the help-text normalizer, the      *)
(* command-grammar parsers (src/help_parser.rs and src/main.rs) and the    *)
(* rustyline callbacks (complete, hint, highlight) of MinecraftCompleter.  *)
(*                                                                         *)
(* A text is a sequence of one-character strings, so that every offset,    *)
(* slice, prefix test and regular-expression match of the source is        *)
(* computed on characters, as the source computes it.                      *)
(***************************************************************************)
EXTENDS Integers, Sequences, FiniteSets

VARIABLES
    pc,         \* where the modelled run stands
    body,       \* format_help_response: the text handed to the first pass
    fixed,      \* format_help_response(body)
    again,      \* format_help_response(fixed)
    help,       \* parse_commands: its argument
    lineNo,     \* parse_commands: lines of help consumed by the for loop
    commands,   \* parse_commands: HashMap<String, Vec<Argument>>
    alias_map,  \* parse_commands: HashMap<String, String>, alias -> target
    completer,  \* MinecraftCompleter.commands: Vec<CommandInfo>
    call        \* the last callback invocation and what it returned

vars == <<pc, body, fixed, again, help, lineNo, commands, alias_map, completer, call>>

(***************************************************************************)
(* Bounds of the model.                                                    *)
(***************************************************************************)
MaxText == 5
MaxLines == 3
MaxInput == 5
MaxEntries == 2

(***************************************************************************)
(* Text primitives of the Rust standard library, on character sequences.   *)
(***************************************************************************)
Whitespace == {" ", "\t", "\n", "\r"}

\* \w of the regex crate, as far as ASCII goes
WordChars ==
    { "a", "b", "c", "d", "e", "f", "g", "h", "i", "j", "k", "l", "m",
      "n", "o", "p", "q", "r", "s", "t", "u", "v", "w", "x", "y", "z",
      "A", "B", "C", "D", "E", "F", "G", "H", "I", "J", "K", "L", "M",
      "N", "O", "P", "Q", "R", "S", "T", "U", "V", "W", "X", "Y", "Z",
      "0", "1", "2", "3", "4", "5", "6", "7", "8", "9", "_" }

Texts(alphabet, n) == UNION {[1..k -> alphabet] : k \in 0..n}

Min(S) == CHOOSE m \in S : \A k \in S : m <= k

Max(S) == CHOOSE m \in S : \A k \in S : k <= m

\* str::trim
Trim(s) ==
    LET keep == {i \in 1..Len(s) : s[i] \notin Whitespace}
    IN  IF keep = {} THEN <<>> ELSE SubSeq(s, Min(keep), Max(keep))

\* str::starts_with
StartsWith(s, p) == Len(p) <= Len(s) /\ SubSeq(s, 1, Len(p)) = p

\* str::split(char): the pieces between the occurrences of c, empty ones kept
RECURSIVE Split(_, _)
Split(s, c) ==
    LET at == {i \in 1..Len(s) : s[i] = c}
    IN  IF at = {} THEN <<s>>
        ELSE <<SubSeq(s, 1, Min(at) - 1)>> \o Split(SubSeq(s, Min(at) + 1, Len(s)), c)

\* str::lines: split at "\n", no final empty line, a trailing "\r" dropped
StripCr(l) == IF l # <<>> /\ l[Len(l)] = "\r" THEN SubSeq(l, 1, Len(l) - 1) ELSE l

Lines(s) ==
    LET pieces == Split(s, "\n")
        kept == IF pieces[Len(pieces)] = <<>>
                THEN SubSeq(pieces, 1, Len(pieces) - 1) ELSE pieces
    IN  [i \in 1..Len(kept) |-> StripCr(kept[i])]

\* str::split_whitespace: the maximal runs of non-whitespace characters
RECURSIVE SplitWhitespace(_)
SplitWhitespace(s) ==
    LET keep == {i \in 1..Len(s) : s[i] \notin Whitespace}
    IN  IF keep = {} THEN <<>>
        ELSE LET b == Min(keep)
                 stops == {i \in b..Len(s) : s[i] \in Whitespace}
                 e == IF stops = {} THEN Len(s) ELSE Min(stops) - 1
             IN  <<SubSeq(s, b, e)>> \o SplitWhitespace(SubSeq(s, e + 1, Len(s)))

(***************************************************************************)
(* format_help_response: a newline before every "/" that neither starts    *)
(* the text nor follows a newline, then trim.                              *)
(***************************************************************************)
\* a plausible slip: the test that the previous character is a newline is lost
NeedsBreakNoLineTest(c, prev) == c = "/" /\ prev # <<>>

\* prev is <<>> for None and <<p>> for Some(p)
NeedsBreak(c, prev) == c = "/" /\ prev # <<"\n">> /\ prev # <<>>

RECURSIVE FormatLoop(_, _, _, _)
FormatLoop(chars, i, prev, out) ==
    IF i > Len(chars) THEN out
    ELSE LET c == chars[i]
             pushed == IF NeedsBreak(c, prev) THEN out \o <<"\n", c>> ELSE out \o <<c>>
         IN  FormatLoop(chars, i + 1, <<c>>, pushed)

format_help_response(b) == Trim(FormatLoop(b, 1, <<>>, <<>>))

(***************************************************************************)
(* Argument, the enum of src/main.rs: one record shape for the four        *)
(* variants, name used by Required/Optional, options by the choice ones.   *)
(***************************************************************************)
Required(n) == [tag |-> "Required", name |-> n, options |-> <<>>]

Optional(n) == [tag |-> "Optional", name |-> n, options |-> <<>>]

\* Argument::RequiredChoice in help_parser.rs, Argument::Choice in main.rs
Choice(tag, opts) == [tag |-> tag, name |-> <<>>, options |-> opts]

OptionalChoice(opts) == [tag |-> "OptionalChoice", name |-> <<>>, options |-> opts]

IsChoice(arg) == arg.tag \in {"RequiredChoice", "Choice", "OptionalChoice"}

(***************************************************************************)
(* The regular expressions of the parsers.  Each XxxEnd(s, i) is the index *)
(* of the last character of the match that starts at i, or 0 when the      *)
(* expression does not match there; a character class that excludes the    *)
(* closing delimiter makes the first closing delimiter the only candidate. *)
(***************************************************************************)
\* the first index j >= i with s[j] = c, or 0
FirstAt(s, c, i) ==
    LET at == {j \in i..Len(s) : s[j] = c}
    IN  IF at = {} THEN 0 ELSE Min(at)

\* the end of the longest run of characters of `class` that starts at i (i - 1: none)
RunEnd(s, i, class) ==
    LET stops == {j \in i..Len(s) : s[j] \notin class}
    IN  IF stops = {} THEN Len(s) ELSE Min(stops) - 1

\* <([^>]+)>
RequiredEnd(s, i) ==
    IF s[i] # "<" THEN 0
    ELSE LET j == FirstAt(s, ">", i + 1) IN IF j >= i + 2 THEN j ELSE 0

RequiredCapture(s, i, e) == SubSeq(s, i + 1, e - 1)

\* \[<([^>]+)>\]
OptionalEnd(s, i) ==
    IF ~(s[i] = "[" /\ i + 1 <= Len(s) /\ s[i + 1] = "<") THEN 0
    ELSE LET j == FirstAt(s, ">", i + 2)
         IN  IF j >= i + 3 /\ j + 1 <= Len(s) /\ s[j + 1] = "]" THEN j + 1 ELSE 0

OptionalCapture(s, i, e) == SubSeq(s, i + 2, e - 2)

\* \(([^)]+)\)
RequiredChoiceEnd(s, i) ==
    IF s[i] # "(" THEN 0
    ELSE LET j == FirstAt(s, ")", i + 1) IN IF j >= i + 2 THEN j ELSE 0

RequiredChoiceCapture(s, i, e) == SubSeq(s, i + 1, e - 1)

\* \[([^\]]+\|[^\]]+)\]
OptionalChoiceEnd(s, i) ==
    IF s[i] # "[" THEN 0
    ELSE LET j == FirstAt(s, "]", i + 1)
         IN  IF j > 0 /\ \E k \in (i + 2)..(j - 2) : s[k] = "|" THEN j ELSE 0

OptionalChoiceCapture(s, i, e) == SubSeq(s, i + 1, e - 1)

MatchEnd(re, s, i) ==
    CASE re = "required" -> RequiredEnd(s, i)
      [] re = "optional" -> OptionalEnd(s, i)
      [] re = "required_choice" -> RequiredChoiceEnd(s, i)
      [] re = "optional_choice" -> OptionalChoiceEnd(s, i)

MatchCapture(re, s, i, e) ==
    CASE re = "required" -> RequiredCapture(s, i, e)
      [] re = "optional" -> OptionalCapture(s, i, e)
      [] re = "required_choice" -> RequiredChoiceCapture(s, i, e)
      [] re = "optional_choice" -> OptionalChoiceCapture(s, i, e)

\* Regex::captures_iter: group 1 of the leftmost match from `from` on, then of
\* the matches after its end, none overlapping
RECURSIVE CapturesIter(_, _, _)
CapturesIter(re, s, from) ==
    LET starts == {i \in from..Len(s) : MatchEnd(re, s, i) > 0}
    IN  IF starts = {} THEN <<>>
        ELSE LET i == Min(starts)
                 e == MatchEnd(re, s, i)
             IN  <<MatchCapture(re, s, i, e)>> \o CapturesIter(re, s, e + 1)

\* ^(?P<cmd>/\w+)(?P<args>.*) on a trimmed line: the end of cmd, or 0
CmdEnd(line) ==
    IF Len(line) >= 2 /\ line[1] = "/" /\ line[2] \in WordChars
    THEN RunEnd(line, 2, WordChars) ELSE 0

\* ^(?P<alias>/\w+)\s*->\s*(?P<target>\w+): the target with "/" before it
\* (format!("/{}", target)), or <<>> when the line is no alias line
AliasTarget(line) ==
    LET a == CmdEnd(line)
        d == RunEnd(line, a + 1, Whitespace) + 1
        t == RunEnd(line, d + 2, Whitespace) + 1
    IN  IF a = 0 THEN <<>>
        ELSE IF ~(d + 1 <= Len(line) /\ line[d] = "-" /\ line[d + 1] = ">") THEN <<>>
        ELSE IF ~(t <= Len(line) /\ line[t] \in WordChars) THEN <<>>
        ELSE <<"/">> \o SubSeq(line, t, RunEnd(line, t, WordChars))

\* cap[1].split('|').map(|s| s.trim().to_string()).collect()
ChoiceOptions(cap) ==
    LET parts == Split(cap, "|") IN [i \in 1..Len(parts) |-> Trim(parts[i])]

\* the four loops over args_str, in the order of the source: every <name>,
\* then every [<name>], then every (a|b) group, then every [a|b] group
ParseArgs(args_str, choiceTag) ==
    LET req == CapturesIter("required", args_str, 1)
        opt == CapturesIter("optional", args_str, 1)
        rch == CapturesIter("required_choice", args_str, 1)
        och == CapturesIter("optional_choice", args_str, 1)
    IN  [i \in 1..Len(req) |-> Required(req[i])]
        \o [i \in 1..Len(opt) |-> Optional(opt[i])]
        \o [i \in 1..Len(rch) |-> Choice(choiceTag, ChoiceOptions(rch[i]))]
        \o [i \in 1..Len(och) |-> OptionalChoice(ChoiceOptions(och[i]))]

(***************************************************************************)
(* parse_commands of src/help_parser.rs: a scan of the lines that fills    *)
(* commands and alias_map, then the loop over alias_map that copies each   *)
(* target's arguments to its alias.                                        *)
(***************************************************************************)
\* HashMap::insert
Insert(m, k, v) == [x \in DOMAIN m \cup {k} |-> IF x = k THEN v ELSE m[x]]

\* HashMap::entry(k).or_insert(v): a plausible slip for insert
InsertIfAbsent(m, k, v) == IF k \in DOMAIN m THEN m ELSE Insert(m, k, v)

\* the body of `if let Some(cap) = re_cmd.captures(line)`
ScanCommand(cmds, line) ==
    LET e == CmdEnd(line)
    IN  IF e = 0 THEN cmds
        ELSE Insert(cmds, SubSeq(line, 1, e),
                    ParseArgs(SubSeq(line, e + 1, Len(line)), "RequiredChoice"))

\* the body of `if let Some(cap) = re_alias.captures(line)`
ScanAlias(amap, line) ==
    LET t == AliasTarget(line)
    IN  IF t = <<>> THEN amap ELSE Insert(amap, SubSeq(line, 1, CmdEnd(line)), t)

\* a plausible slip: entry(alias).or_insert(..), which keeps the empty entry the
\* alias line itself has put under the alias
CopyTargetIfAbsent(cmds, alias, target) == InsertIfAbsent(cmds, alias, cmds[target])

\* commands.insert(alias, commands[&target].clone()), the target being there
CopyTarget(cmds, alias, target) == Insert(cmds, alias, cmds[target])

(***************************************************************************)
(* Idle values of the variables a specification does not use.              *)
(***************************************************************************)
NoCall == [op |-> "none"]

EmptyMap == [k \in {} |-> <<>>]

IdleFormat == body = <<>> /\ fixed = <<>> /\ again = <<>>

IdleParse == help = <<>> /\ lineNo = 0 /\ commands = EmptyMap /\ alias_map = EmptyMap

IdleShell == completer = <<>> /\ call = NoCall

(***************************************************************************)
(* The normalizer applied to a response body, and to its own output.       *)
(***************************************************************************)
FormatAlphabet == {"/", " ", "\n", "a"}

InitFormat ==
    /\ pc = "raw"
    /\ body \in Texts(FormatAlphabet, MaxText)
    /\ fixed = <<>> /\ again = <<>>
    /\ IdleParse /\ IdleShell

FormatOnce ==
    /\ pc = "raw"
    /\ fixed' = format_help_response(body)
    /\ pc' = "fixed"
    /\ UNCHANGED <<body, again, help, lineNo, commands, alias_map, completer, call>>

FormatAgain ==
    /\ pc = "fixed"
    /\ again' = format_help_response(fixed)
    /\ pc' = "refixed"
    /\ UNCHANGED <<body, fixed, help, lineNo, commands, alias_map, completer, call>>

NextFormat == FormatOnce \/ FormatAgain

SpecFormat == InitFormat /\ [][NextFormat]_vars

\* C8: normalization is idempotent: a second pass over the output of
\* format_help_response changes nothing; and in every output each "/" is the
\* first character or follows a newline, and no whitespace leads or trails.
C8_Idempotent ==
    /\ pc = "refixed" => again = fixed
    /\ pc \in {"fixed", "refixed"} =>
        /\ \A i \in 1..Len(fixed) : fixed[i] = "/" => (i = 1 \/ fixed[i - 1] = "\n")
        /\ fixed # <<>> => (fixed[1] \notin Whitespace /\ fixed[Len(fixed)] \notin Whitespace)

\* a second pass has run over an output in which the first pass inserted a
\* newline and trimmed whitespace away
C8_Witness ==
    /\ pc = "refixed"
    /\ Len(body) > 1 /\ body[1] = " "
    /\ \E i \in 2..Len(body) : body[i] = "/" /\ body[i - 1] = "a"
    /\ Len(fixed) > 1 /\ Len(fixed) # Len(body)

(***************************************************************************)
(* parse_commands run on a listing: the for loop over help.lines(), one    *)
(* line a step, then the loop over alias_map, one alias a step.  HashMap   *)
(* iterates in an order the hasher's random seed decides: any alias left   *)
(* may be the next one.  commands[&target] panics when the key is absent.  *)
(***************************************************************************)
\* the lines listings are made of:
\*   "/c <x> [<y>]"   "/b <y> [<x>]"   "/a -> b"   "/b -> c"   "/tp->b"
\*   "/c (a||b) [a| ]"   "/c ( )"   " /b (a|b) <x> "   "x"
ListingLines ==
    { <<"/", "c", " ", "<", "x", ">", " ", "[", "<", "y", ">", "]">>,
      <<"/", "b", " ", "<", "y", ">", " ", "[", "<", "x", ">", "]">>,
      <<"/", "a", " ", "-", ">", " ", "b">>,
      <<"/", "b", " ", "-", ">", " ", "c">>,
      <<"/", "t", "p", "-", ">", "b">>,
      <<"/", "c", " ", "(", "a", "|", "|", "b", ")", " ", "[", "a", "|", " ", "]">>,
      <<"/", "c", " ", "(", " ", ")">>,
      <<" ", "/", "b", " ", "(", "a", "|", "b", ")", " ", "<", "x", ">", " ">>,
      <<"x">> }

RECURSIVE JoinLines(_)
JoinLines(ls) ==
    IF Len(ls) = 0 THEN <<>>
    ELSE IF Len(ls) = 1 THEN ls[1]
    ELSE ls[1] \o <<"\n">> \o JoinLines(Tail(ls))

Listings == {JoinLines(ls) : ls \in UNION {[1..n -> ListingLines] : n \in 1..MaxLines}}

InitParse ==
    /\ pc = "scan"
    /\ help \in Listings
    /\ lineNo = 0
    /\ commands = EmptyMap
    /\ alias_map = EmptyMap
    /\ IdleFormat /\ IdleShell

\* one iteration of `for line in help.lines()`
ScanLine ==
    /\ pc = "scan"
    /\ lineNo < Len(Lines(help))
    /\ LET line == Trim(Lines(help)[lineNo + 1])
       IN  /\ commands' = ScanCommand(commands, line)
           /\ alias_map' = ScanAlias(alias_map, line)
    /\ lineNo' = lineNo + 1
    /\ UNCHANGED <<pc, body, fixed, again, help, completer, call>>

\* one iteration of `for (alias, target) in alias_map`
ResolveAlias ==
    /\ pc = "scan"
    /\ lineNo = Len(Lines(help))
    /\ \E alias \in DOMAIN alias_map :
        LET target == alias_map[alias]
        IN  /\ alias_map' = [a \in DOMAIN alias_map \ {alias} |-> alias_map[a]]
            /\ IF target \in DOMAIN commands
               THEN commands' = CopyTarget(commands, alias, target) /\ pc' = "scan"
               ELSE commands' = commands /\ pc' = "panic"
    /\ UNCHANGED <<body, fixed, again, help, lineNo, completer, call>>

\* the final expression `commands`
ReturnCommands ==
    /\ pc = "scan"
    /\ lineNo = Len(Lines(help))
    /\ DOMAIN alias_map = {}
    /\ pc' = "done"
    /\ UNCHANGED <<body, fixed, again, help, lineNo, commands, alias_map, completer, call>>

NextParse == ScanLine \/ ResolveAlias \/ ReturnCommands

SpecParse == InitParse /\ [][NextParse]_vars

(***************************************************************************)
(* What a listing says, read off its lines (for the claims below).         *)
(***************************************************************************)
TrimmedLines(h) == [i \in 1..Len(Lines(h)) |-> Trim(Lines(h)[i])]

\* the lines of h that define name, i.e. that re_cmd matches with cmd = name
DefiningLines(h, name) ==
    {i \in 1..Len(TrimmedLines(h)) :
        LET l == TrimmedLines(h)[i] IN CmdEnd(l) > 0 /\ SubSeq(l, 1, CmdEnd(l)) = name}

\* the alias lines of h
AliasLines(h) == {i \in 1..Len(TrimmedLines(h)) : AliasTarget(TrimmedLines(h)[i]) # <<>>}

AliasNameAt(h, i) == LET l == TrimmedLines(h)[i] IN SubSeq(l, 1, CmdEnd(l))

AliasNames(h) == {AliasNameAt(h, i) : i \in AliasLines(h)}

\* the last alias line of an alias is the one alias_map keeps
LastAliasLine(h, a) == Max({i \in AliasLines(h) : AliasNameAt(h, i) = a})

TargetOf(h, a) == AliasTarget(TrimmedLines(h)[LastAliasLine(h, a)])

\* some alias of h names a target that no line of h defines
MissingTarget(h) == \E a \in AliasNames(h) : DefiningLines(h, TargetOf(h, a)) = {}

\* the arguments on the last defining line of name
DefinedArgs(h, name) ==
    LET l == TrimmedLines(h)[Max(DefiningLines(h, name))]
    IN  ParseArgs(SubSeq(l, CmdEnd(l) + 1, Len(l)), "RequiredChoice")

\* the maps as the for loop over the lines leaves them
RECURSIVE ScannedCommands(_, _)
ScannedCommands(h, n) ==
    IF n = 0 THEN EmptyMap ELSE ScanCommand(ScannedCommands(h, n - 1), TrimmedLines(h)[n])

RECURSIVE ScannedAliases(_, _)
ScannedAliases(h, n) ==
    IF n = 0 THEN EmptyMap ELSE ScanAlias(ScannedAliases(h, n - 1), TrimmedLines(h)[n])

\* the orders in which a HashMap with these keys may iterate
Orders(keys) ==
    {o \in [1..Cardinality(keys) -> keys] : \A i, j \in DOMAIN o : i # j => o[i] # o[j]}

\* the loop over alias_map taken in the given order, every target being there
RECURSIVE ResolveIn(_, _, _)
ResolveIn(cmds, amap, order) ==
    IF order = <<>> THEN cmds
    ELSE ResolveIn(CopyTarget(cmds, Head(order), amap[Head(order)]), amap, Tail(order))

Idents == {<<"a">>, <<"b">>, <<"c">>, <<"x">>, <<"y">>}

\* the line "/cmd <a> [<b>]"
ReqOptLine(cmd, a, b) == <<"/">> \o cmd \o <<" ", "<">> \o a \o <<">", " ", "[", "<">> \o b \o <<">", "]">>

\* C3: a listing line "/cmd <a> [<b>]" yields the command /cmd with exactly the
\* arguments [Required(a), Optional(b)]: the bracketed placeholder contributes an
\* Optional and nothing else.
C3_RequiredThenOptional ==
    pc = "done" =>
        \A cmd, a, b \in Idents :
            LET name == <<"/">> \o cmd
                defs == DefiningLines(help, name)
            IN  (/\ defs # {}
                 /\ TrimmedLines(help)[Max(defs)] = ReqOptLine(cmd, a, b)
                 /\ name \notin AliasNames(help))
                => (name \in DOMAIN commands /\ commands[name] = <<Required(a), Optional(b)>>)

\* C4: an alias whose target no line defines ends registry construction with a
\* reported failure: parse_commands never terminates abnormally, and never
\* returns a registry for such a listing.
C4_MissingTargetReported ==
    /\ pc # "panic"
    /\ pc = "done" => ~MissingTarget(help)

\* C5: whichever of an alias line and the defining line of its target (itself
\* no alias) comes first, the returned registry holds under the alias the
\* arguments parsed from the target's defining line; and parse_commands fails
\* only on a listing with an alias whose target no line defines.
C5_AliasOrderIrrelevant ==
    /\ pc = "done" =>
        \A a \in AliasNames(help) :
            LET t == TargetOf(help, a)
            IN  (t \notin AliasNames(help) /\ DefiningLines(help, t) # {})
                => (a \in DOMAIN commands /\ commands[a] = DefinedArgs(help, t))
    /\ pc = "panic" => MissingTarget(help)

\* a registry was returned for a listing in which one alias line precedes and
\* another follows the defining line of their common target
C5_Witness ==
    /\ pc = "done"
    /\ \E a1, a2 \in AliasNames(help) :
        LET t == TargetOf(help, a1)
        IN  /\ t = TargetOf(help, a2)
            /\ t \notin AliasNames(help)
            /\ DefiningLines(help, t) # {}
            /\ LastAliasLine(help, a1) < Min(DefiningLines(help, t))
            /\ LastAliasLine(help, a2) > Max(DefiningLines(help, t))
            /\ commands[a1] # <<>> /\ commands[a1] = commands[a2]

\* C9: every RequiredChoice and OptionalChoice of the returned registry has a
\* non-empty options list of non-empty strings with no leading or trailing
\* whitespace.
C9_ChoiceOptionsNonEmptyTrimmed ==
    pc = "done" =>
        \A name \in DOMAIN commands :
            \A i \in 1..Len(commands[name]) :
                LET arg == commands[name][i]
                IN  IsChoice(arg) =>
                        /\ arg.options # <<>>
                        /\ \A k \in 1..Len(arg.options) :
                            arg.options[k] # <<>> /\ Trim(arg.options[k]) = arg.options[k]

\* C10: when every alias target is defined, every order in which the alias
\* edges are resolved yields the registry that was returned.
C10_ResolutionOrderIrrelevant ==
    (pc = "done" /\ ~MissingTarget(help)) =>
        LET n == Len(TrimmedLines(help))
            amap == ScannedAliases(help, n)
        IN  \A order \in Orders(DOMAIN amap) :
                ResolveIn(ScannedCommands(help, n), amap, order) = commands

(***************************************************************************)
(* src/main.rs: parse_help_output and the callbacks of MinecraftCompleter.  *)
(* An Option is <<>> for None and <<v>> for Some(v).                       *)
(***************************************************************************)
\* help.lines().filter_map(..).collect(): a CommandInfo for every line re_cmd matches
RECURSIVE ParseHelpLines(_, _)
ParseHelpLines(ls, n) ==
    IF n = 0 THEN <<>>
    ELSE LET line == Trim(ls[n])
             e == CmdEnd(line)
         IN  IF e = 0 THEN ParseHelpLines(ls, n - 1)
             ELSE Append(ParseHelpLines(ls, n - 1),
                         [name |-> SubSeq(line, 1, e),
                          args |-> ParseArgs(SubSeq(line, e + 1, Len(line)), "Choice")])

parse_help_output(h) == ParseHelpLines(Lines(h), Len(Lines(h)))

\* Iterator::find over indices: the least of them, or 0
FirstOf(hits) == IF hits = {} THEN 0 ELSE Min(hits)

\* Pair { display, replacement } of a command name
CommandPair(cmd) == [display |-> cmd.name, replacement |-> cmd.name]

\* Pair { display, replacement } of a choice
ChoicePair(choice) == [display |-> choice, replacement |-> choice \o <<" ">>]

\* Completer::complete
complete(cmds, line, pos) ==
    LET input == SubSeq(line, 1, pos)
        words == SplitWhitespace(input)
    IN  IF Len(words) = 0 THEN [start |-> 0, pairs |-> <<>>]
        ELSE IF Len(words) = 1 THEN
            LET NameStartsWithLine(cmd) == StartsWith(cmd.name, line)
                found == SelectSeq(cmds, NameStartsWithLine)
            IN  [start |-> 0, pairs |-> [i \in 1..Len(found) |-> CommandPair(found[i])]]
        ELSE
            LET at == FirstOf({i \in 1..Len(cmds) : words[1] = cmds[i].name})
                last == words[Len(words)]
                input_argument_count == Len(words) - 1
            IN  IF at = 0 THEN [start |-> 0, pairs |-> <<>>]
                ELSE IF Len(cmds[at].args) < input_argument_count
                THEN [start |-> 0, pairs |-> <<>>]
                ELSE LET arg == cmds[at].args[input_argument_count]
                         StartsWithLast(choice) == StartsWith(choice, last)
                         hits == IF IsChoice(arg)
                                 THEN SelectSeq(arg.options, StartsWithLast)
                                 ELSE <<>>
                     IN  [start |-> Len(line) - Len(last),
                          pairs |-> [i \in 1..Len(hits) |-> ChoicePair(hits[i])]]

\* a plausible slip: the test that the name is longer than the line is lost
HintMatchesAnyPrefix(name, line) == StartsWith(name, line)

\* cmd.name.starts_with(line) && cmd.name != line
HintMatches(name, line) == StartsWith(name, line) /\ name # line

\* Hinter::hint
hint(cmds, line) ==
    IF line = <<>> \/ line = <<"/">> \/ line[1] # "/" \/ \E i \in 1..Len(line) : line[i] = " "
    THEN <<>>
    ELSE LET at == FirstOf({i \in 1..Len(cmds) : HintMatches(cmds[i].name, line)})
         IN  IF at = 0 THEN <<>>
             ELSE <<SubSeq(cmds[at].name, Len(line) + 1, Len(cmds[at].name))>>

\* the escape sequences "\x1b[33m", "\x1b[32m" and "\x1b[0m"; "ESC" stands for
\* the one character \x1b
Yellow == <<"ESC", "[", "3", "3", "m">>

Green == <<"ESC", "[", "3", "2", "m">>

Reset == <<"ESC", "[", "0", "m">>

\* highlight_command
highlight_command(cmds, s, is_suggestion) ==
    LET words == SplitWhitespace(s)
    IN  IF Len(words) = 0 THEN s
        ELSE LET command_found == \E i \in 1..Len(cmds) : cmds[i].name = words[1]
                 colored == IF command_found
                            THEN (IF is_suggestion THEN Yellow ELSE Green) \o words[1] \o Reset
                            ELSE words[1]
             IN  colored \o SubSeq(s, Len(words[1]) + 1, Len(s))

(***************************************************************************)
(* A session: main fetches the help listing, normalizes and parses it and  *)
(* hands the commands to the editor; the editor then invokes a             *)
(* callback on any line and cursor, takes its result, and so on.           *)
(***************************************************************************)
\* the entries a help response is made of, sent one after the other with no
\* separator:  "/g (a|ga)"   "/ga <x> [g|a]"   "/a"   "/g <x>"
HelpEntries ==
    { <<"/", "g", " ", "(", "a", "|", "g", "a", ")">>,
      <<"/", "g", "a", " ", "<", "x", ">", " ", "[", "g", "|", "a", "]">>,
      <<"/", "a">>,
      <<"/", "g", " ", "<", "x", ">">> }

RECURSIVE Concat(_)
Concat(ss) == IF Len(ss) = 0 THEN <<>> ELSE Head(ss) \o Concat(Tail(ss))

HelpResponses == {Concat(es) : es \in UNION {[1..n -> HelpEntries] : n \in 0..MaxEntries}}

InputAlphabet == {"/", "g", "a", " "}

InputLines == Texts(InputAlphabet, MaxInput)

InitSession ==
    /\ pc = "connecting"
    /\ body \in HelpResponses
    /\ fixed = <<>> /\ again = <<>>
    /\ completer = <<>>
    /\ call = NoCall
    /\ IdleParse

\* parse_help_output(format_help_response(&help_response)); rl.set_helper(..)
SetHelper ==
    /\ pc = "connecting"
    /\ fixed' = format_help_response(body)
    /\ completer' = parse_help_output(format_help_response(body))
    /\ pc' = "readline"
    /\ UNCHANGED <<body, again, help, lineNo, commands, alias_map, call>>

CallComplete ==
    /\ pc = "readline"
    /\ \E line \in InputLines : \E pos \in 0..Len(line) :
        call' = [op |-> "complete", line |-> line, pos |-> pos,
                 result |-> complete(completer, line, pos)]
    /\ pc' = "returned"
    /\ UNCHANGED <<body, fixed, again, help, lineNo, commands, alias_map, completer>>

CallHint ==
    /\ pc = "readline"
    /\ \E line \in InputLines :
        call' = [op |-> "hint", line |-> line, pos |-> Len(line),
                 result |-> hint(completer, line)]
    /\ pc' = "returned"
    /\ UNCHANGED <<body, fixed, again, help, lineNo, commands, alias_map, completer>>

\* Highlighter::highlight
CallHighlight ==
    /\ pc = "readline"
    /\ \E line \in InputLines :
        call' = [op |-> "highlight", line |-> line, pos |-> Len(line),
                 result |-> highlight_command(completer, line, FALSE)]
    /\ pc' = "returned"
    /\ UNCHANGED <<body, fixed, again, help, lineNo, commands, alias_map, completer>>

\* Highlighter::highlight_candidate
CallHighlightCandidate ==
    /\ pc = "readline"
    /\ \E candidate \in InputLines :
        call' = [op |-> "highlight_candidate", line |-> candidate, pos |-> Len(candidate),
                 result |-> highlight_command(completer, candidate, TRUE)]
    /\ pc' = "returned"
    /\ UNCHANGED <<body, fixed, again, help, lineNo, commands, alias_map, completer>>

\* the editor takes the callback's result and waits for the next key
NextKey ==
    /\ pc = "returned"
    /\ call' = NoCall
    /\ pc' = "readline"
    /\ UNCHANGED <<body, fixed, again, help, lineNo, commands, alias_map, completer>>

NextComplete == SetHelper \/ CallComplete \/ NextKey

NextHint == SetHelper \/ CallHint \/ NextKey

NextHighlight == SetHelper \/ CallHighlight \/ CallHighlightCandidate \/ NextKey

SpecComplete == InitSession /\ [][NextComplete]_vars

SpecHint == InitSession /\ [][NextHint]_vars

SpecHighlight == InitSession /\ [][NextHighlight]_vars

(***************************************************************************)
(* What the callbacks are claimed to return.                               *)
(***************************************************************************)
Names == {completer[i].name : i \in 1..Len(completer)}

HasSpace(line) == \E i \in 1..Len(line) : line[i] \in Whitespace

\* C1: on a line that is a single token, cursor at its end, complete returns
\* start offset 0 and exactly one candidate for each registered name that has
\* the token as a prefix, its replacement being the name and one trailing space.
C1_NameCompletion ==
    (/\ pc = "returned" /\ call.op = "complete"
     /\ call.line # <<>> /\ ~HasSpace(call.line) /\ call.pos = Len(call.line))
    => LET matching == {n \in Names : StartsWith(n, call.line)}
           pairs == call.result.pairs
       IN  /\ call.result.start = 0
           /\ Len(pairs) = Cardinality(matching)
           /\ {pairs[i].replacement : i \in 1..Len(pairs)} = {n \o <<" ">> : n \in matching}

\* C2: when the text up to the cursor has two or more tokens, the first is a
\* registered name and the argument at index (token count - 2) of that command
\* is a choice, complete returns exactly the options that have the last token
\* as a prefix, each followed by one space, and the start offset cursor minus
\* the length of the last token.
C2_ChoiceCompletion ==
    (pc = "returned" /\ call.op = "complete") =>
        LET words == SplitWhitespace(SubSeq(call.line, 1, call.pos))
            at == FirstOf({i \in 1..Len(completer) : completer[i].name = words[1]})
            n == Len(words) - 1
            last == words[Len(words)]
        IN  (/\ Len(words) >= 2 /\ at # 0
             /\ n <= Len(completer[at].args) /\ IsChoice(completer[at].args[n]))
            => LET opts == completer[at].args[n].options
                   hits == {k \in 1..Len(opts) : StartsWith(opts[k], last)}
                   pairs == call.result.pairs
               IN  /\ call.result.start = call.pos - Len(last)
                   /\ Len(pairs) = Cardinality(hits)
                   /\ {pairs[i].replacement : i \in 1..Len(pairs)}
                        = {opts[k] \o <<" ">> : k \in hits}

\* C6: highlighting inserts a style marker right before and a reset marker
\* right after a first token that is a registered name (yellow for a
\* candidate, green for the line) and changes no other character, whatever
\* whitespace surrounds the token; any other text is returned as it is.
C6_HighlightPreservesText ==
    (pc = "returned" /\ call.op \in {"highlight", "highlight_candidate"}) =>
        LET s == call.line
            words == SplitWhitespace(s)
            first == Min({i \in 1..Len(s) : s[i] \notin Whitespace})
            style == IF call.op = "highlight_candidate" THEN Yellow ELSE Green
        IN  IF Len(words) > 0 /\ words[1] \in Names
            THEN call.result = SubSeq(s, 1, first - 1) \o style \o words[1] \o Reset
                               \o SubSeq(s, first + Len(words[1]), Len(s))
            ELSE call.result = s

\* the lines hint looks at: not empty, not "/", starting with "/", no space
Hintable(line) ==
    /\ line # <<>> /\ line # <<"/">> /\ line[1] = "/"
    /\ \A i \in 1..Len(line) : line[i] # " "

\* C7 as stated: on a hintable line that is a prefix of some registered name,
\* hint returns a suffix that completes the line to a registered name; on any
\* other line it returns no hint.
C7_HintAsStated ==
    (pc = "returned" /\ call.op = "hint") =>
        /\ (Hintable(call.line) /\ \E n \in Names : StartsWith(n, call.line))
            => (call.result # <<>> /\ call.line \o call.result[1] \in Names)
        /\ ~Hintable(call.line) => call.result = <<>>

\* C7 as amended: on a hintable line that is a prefix of some registered name
\* other than the line itself, hint returns the non-empty suffix that completes
\* the line to the first such name in the order of the registry; on a hintable
\* line that is a prefix of no other name (be it a registered name itself), and
\* on any line that is not hintable, hint returns no hint.
C7_HintProperPrefix ==
    (pc = "returned" /\ call.op = "hint") =>
        LET longer == {i \in 1..Len(completer) :
                          /\ StartsWith(completer[i].name, call.line)
                          /\ completer[i].name # call.line}
        IN  IF Hintable(call.line) /\ longer # {}
            THEN /\ call.result # <<>>
                 /\ call.result[1] # <<>>
                 /\ call.line \o call.result[1] = completer[Min(longer)].name
            ELSE call.result = <<>>

\* hint was asked on a line that is a registered name and a prefix of a longer
\* one, and returned the rest of the longer one
C7_Witness ==
    /\ pc = "returned" /\ call.op = "hint"
    /\ call.line \in Names
    /\ call.result # <<>>
    /\ Len(call.result[1]) > 0
    /\ call.line \o call.result[1] \in Names

=============================================================================
